---- MODULE Spec2Model ----
(***************************************************************************)
(* Model of the TITERRA oracle batch criteria                              *)
(* (titerra/projects/common/variables/oracle.py) and of the steady-state   *)
(* raw performance kernel (titerra/projects/common/perf_measures/raw.py).  *)
(*                                                                         *)
(* Python strings are sequences of one-character strings, so that the     *)
(* substring tests and the regular expression search of Parser.__call__   *)
(* are computed character by character.  None is <<>> and a present value *)
(* x is <<x>>.                                                            *)
(***************************************************************************)
EXTENDS Integers, Sequences, FiniteSets, TLC

VARIABLES
    criteria_str,   \* Parser.__call__: the argument
    parsed,         \* Parser.__call__: the outcome of the call, <<>> before it
    cli_arg,        \* Oracle: self.cli_arg
    tuples,         \* Oracle: self.tuples
    population,     \* Oracle: self.population
    attr_changes,   \* Oracle: self.attr_changes
    last,           \* Oracle: the last operation called on the instance and its outcome
    collated,       \* df_kernel: the argument, a dict in insertion order
    pm_dfs,         \* df_kernel: the outcome of the call, <<>> before it
    exp_chgs,       \* AttrChangeSet |=: the left operand
    size_chgs,      \* AttrChangeSet |=: the right operand
    merged          \* AttrChangeSet |=: the outcome, <<>> before it

vars == <<criteria_str, parsed, cli_arg, tuples, population, attr_changes, last,
          collated, pm_dfs, exp_chgs, size_chgs, merged>>

parserVars == <<criteria_str, parsed>>
oracleVars == <<cli_arg, tuples, population, attr_changes, last>>
kernelVars == <<collated, pm_dfs>>
mergeVars == <<exp_chgs, size_chgs, merged>>

None == <<>>
Some(x) == <<x>>

(***************************************************************************)
(* Bounds of the model.                                                    *)
(***************************************************************************)
\* criteria strings given to the parser are concatenations of at most MaxWords words
MaxWords == 5
\* graph_xticks() is given at most MaxNames explicit experiment names
MaxNames == 2
\* a collated frame has at most MaxRows rows
MaxRows == 2

(***************************************************************************)
(* Strings.                                                                *)
(***************************************************************************)
KwEntities == <<"e", "n", "t", "i", "t", "i", "e", "s">>
KwTasking == <<"t", "a", "s", "k", "i", "n", "g">>
KwOracle == <<"o", "r", "a", "c", "l", "e">>
EntitiesOracle == KwEntities \o <<"_">> \o KwOracle
TaskingOracle == KwTasking \o <<"_">> \o KwOracle
EmptyStr == <<>>

\* Python's `sub in s`
Contains(s, sub) ==
    \E i \in 1..(Len(s) - Len(sub) + 1) : SubSeq(s, i, i + Len(sub) - 1) = sub

IsDigit(c) == c \in {"0", "1", "2", "3", "4", "5", "6", "7", "8", "9"}

DigitVal(c) ==
    CASE c = "0" -> 0 [] c = "1" -> 1 [] c = "2" -> 2 [] c = "3" -> 3
      [] c = "4" -> 4 [] c = "5" -> 5 [] c = "6" -> 6 [] c = "7" -> 7
      [] c = "8" -> 8 [] c = "9" -> 9

DigitChar(d) ==
    CASE d = 0 -> "0" [] d = 1 -> "1" [] d = 2 -> "2" [] d = 3 -> "3"
      [] d = 4 -> "4" [] d = 5 -> "5" [] d = 6 -> "6" [] d = 7 -> "7"
      [] d = 8 -> "8" [] d = 9 -> "9"

\* str() of a non-negative integer
RECURSIVE StrOfInt(_)
StrOfInt(n) ==
    IF n < 10 THEN <<DigitChar(n)>>
    ELSE StrOfInt(n \div 10) \o <<DigitChar(n % 10)>>

\* int() of a string of decimal digits
RECURSIVE PyInt(_)
PyInt(ds) ==
    IF ds = <<>> THEN 0
    ELSE 10 * PyInt(SubSeq(ds, 1, Len(ds) - 1)) + DigitVal(ds[Len(ds)])

\* [0-9]+ is greedy: the end of the run of digits that starts at position i
RECURSIVE DigitRunEnd(_, _)
DigitRunEnd(s, i) ==
    IF i + 1 <= Len(s) /\ IsDigit(s[i + 1]) THEN DigitRunEnd(s, i + 1) ELSE i

\* \.Z[0-9]+ matches at position i
MatchesAt(s, i) ==
    /\ i + 2 <= Len(s)
    /\ s[i] = "."
    /\ s[i + 1] = "Z"
    /\ IsDigit(s[i + 2])

\* re.search(r"\.Z[0-9]+", s): the leftmost match from position i on, as
\* res.group(0), or None
RECURSIVE ReSearch(_, _)
ReSearch(s, i) ==
    IF i > Len(s) THEN None
    ELSE IF MatchesAt(s, i) THEN Some(SubSeq(s, i, DigitRunEnd(s, i + 2)))
    ELSE ReSearch(s, i + 1)

(***************************************************************************)
(* Parser.__call__                                                         *)
(***************************************************************************)
\* the keyword tests in the other order
ParseOracleTaskingFirst(s) ==
    IF Contains(s, KwTasking)
    THEN [oracle_type |-> KwTasking, oracle_name |-> TaskingOracle]
    ELSE IF Contains(s, KwEntities)
    THEN [oracle_type |-> KwEntities, oracle_name |-> EntitiesOracle]
    ELSE [oracle_type |-> EmptyStr, oracle_name |-> EmptyStr]

ParseOracle(s) ==
    IF Contains(s, KwEntities)
    THEN [oracle_type |-> KwEntities, oracle_name |-> EntitiesOracle]
    ELSE IF Contains(s, KwTasking)
    THEN [oracle_type |-> KwTasking, oracle_name |-> TaskingOracle]
    ELSE [oracle_type |-> EmptyStr, oracle_name |-> EmptyStr]

ParsePopulation(s) ==
    LET res == ReSearch(s, 1)
    IN  IF res # None
        THEN Some(PyInt(SubSeq(res[1], 3, Len(res[1]))))
        ELSE None

Parser(s) ==
    [oracle_name |-> ParseOracle(s).oracle_name,
     oracle_type |-> ParseOracle(s).oracle_type,
     population |-> ParsePopulation(s)]

(***************************************************************************)
(* AttrChange, AttrChangeSet and the population provider.                  *)
(***************************************************************************)
AttrChange(path, attr, value) == <<path, attr, value>>

\* ".//oracle_manager/{0}".format(str(oracle))
OracleManagerPath(oracle) == <<".//oracle_manager/", oracle>>

\* exp_chgs |= size_chgs: the union of the two sets of changes, in place
Combine(chgs, other) == chgs \cup other

\* PopulationSize(..., [n]).gen_attr_changelist()[0]: the one edit that sets
\* the swarm size
PopulationChanges(n) ==
    {AttrChange(<<".//arena/distribute/entity", EmptyStr>>, "quantity", StrOfInt(n))}

(***************************************************************************)
(* factory() and its gen_tuples()                                          *)
(***************************************************************************)
kInfoTypes == [entities |-> <<"caches", "blocks">>]

\* the product taken over [True, False]
BoolValuesReversed == <<TRUE, FALSE>>

BoolValues == <<FALSE, TRUE>>

\* itertools.product(vals, repeat=repeat), as a list: the last position
\* varies fastest
RECURSIVE product(_, _)
product(vals, repeat) ==
    IF repeat = 0 THEN << <<>> >>
    ELSE LET rest == product(vals, repeat - 1)
         IN  [n \in 1..(Len(vals) * Len(rest)) |->
                <<vals[((n - 1) \div Len(rest)) + 1]>> \o rest[((n - 1) % Len(rest)) + 1]]

\* str() of a bool
PyStr(b) == IF b THEN <<"T", "r", "u", "e">> ELSE <<"F", "a", "l", "s", "e">>

LowerChar(c) ==
    CASE c = "T" -> "t"
      [] c = "F" -> "f"
      [] OTHER -> c

\* str.lower()
Lower(s) == [i \in 1..Len(s) |-> LowerChar(s[i])]

gen_tuples(attr) ==
    IF Contains(attr.oracle_name, KwEntities)
    THEN LET flags == kInfoTypes.entities
             vals == product(BoolValues, Len(flags))
         IN  Some([n \in 1..Len(vals) |->
                     <<attr.oracle_name,
                       [i \in 1..Len(flags) |-> <<flags[i], Lower(PyStr(vals[n][i]))>>]>>])
    ELSE None

\* the fields of the instance that factory() builds from cli_arg
factory(arg) ==
    LET attr == Parser(arg)
    IN  [cli_arg |-> arg,
         tuples |-> gen_tuples(attr),
         population |-> attr.population,
         attr_changes |-> <<>>]

(***************************************************************************)
(* Oracle                                                                  *)
(***************************************************************************)
\* the plan computed on every call
NeedsComputeAlways(changes) == TRUE

\* `if not self.attr_changes`
NeedsCompute(changes) == changes = <<>>

\* one AttrChangeSet of the loop over self.tuples
FeatureChanges(tuple) ==
    {AttrChange(OracleManagerPath(tuple[1]), tuple[2][i][1], tuple[2][i][2]) :
        i \in 1..Len(tuple[2])}

\* Oracle.gen_attr_changelist(): the outcome of the call and self.attr_changes
\* after it.  size_fails: the population provider raises.
gen_attr_changelist(tuples_, population_, changes, size_fails) ==
    IF NeedsCompute(changes)
    THEN IF tuples_ = None
         THEN [attr_changes |-> changes, status |-> "TypeError", val |-> <<>>,
               computed |-> TRUE]
         ELSE LET appended ==
                      changes \o [n \in 1..Len(tuples_[1]) |-> FeatureChanges(tuples_[1][n])]
              IN  IF population_ = None
                  THEN [attr_changes |-> appended, status |-> "ok", val |-> appended,
                        computed |-> TRUE]
                  ELSE IF size_fails
                  THEN [attr_changes |-> appended, status |-> "ProviderError",
                        val |-> <<>>, computed |-> TRUE]
                  ELSE LET size_chgs_ == PopulationChanges(population_[1])
                           all == [n \in 1..Len(appended) |->
                                     Combine(appended[n], size_chgs_)]
                       IN  [attr_changes |-> all, status |-> "ok", val |-> all,
                            computed |-> TRUE]
    ELSE [attr_changes |-> changes, status |-> "ok", val |-> changes,
          computed |-> FALSE]

\* 'exp' + str(x)
ExpName(x) == <<"e", "x", "p">> \o StrOfInt(x)

\* the names counted from 1
ExpNamesFromOne(changes) == [x \in 1..Len(changes) |-> ExpName(x)]

\* ['exp' + str(x) for x in range(0, len(changes))]
ExpNamesOf(changes) == [x \in 1..Len(changes) |-> ExpName(x - 1)]

\* Oracle.gen_exp_names()
gen_exp_names(tuples_, population_, changes, size_fails) ==
    LET r == gen_attr_changelist(tuples_, population_, changes, size_fails)
    IN  IF r.status = "ok" THEN [r EXCEPT !.val = ExpNamesOf(r.val)] ELSE r

\* float(x) of a small integer
Float(x) == <<"float", x>>

\* list(map(float, range(0, len(exp_names))))
XticksOf(exp_names) == [x \in 1..Len(exp_names) |-> Float(x - 1)]

\* Oracle.graph_xticks(): exp_names is None or Some(list of names)
graph_xticks(tuples_, population_, changes, exp_names, size_fails) ==
    IF exp_names = None
    THEN LET r == gen_exp_names(tuples_, population_, changes, size_fails)
         IN  IF r.status = "ok" THEN [r EXCEPT !.val = XticksOf(r.val)] ELSE r
    ELSE [attr_changes |-> changes, status |-> "ok", val |-> XticksOf(exp_names[1]),
          computed |-> FALSE]

(***************************************************************************)
(* The instance under test: built by factory() from one of these criteria  *)
(* strings, then used through its three operations in any order.           *)
(***************************************************************************)
Dot == <<".">>
Z64 == <<"Z", "6", "4">>
Z0 == <<"Z", "0">>

CliArgs ==
    {KwOracle \o Dot \o KwEntities,
     KwOracle \o Dot \o KwEntities \o Dot \o Z64,
     KwOracle \o Dot \o KwEntities \o Dot \o Z0,
     KwOracle \o Dot \o KwTasking,
     KwOracle \o Dot \o KwTasking \o Dot \o Z64,
     KwOracle \o Dot \o KwTasking \o Dot \o KwEntities \o Dot \o Z64,
     KwEntities \o Dot \o KwTasking,
     KwOracle \o Dot \o KwTasking \o Dot \o Z0,
     KwOracle,
     KwOracle \o Dot \o Z64}

\* the explicit lists of names a caller passes to graph_xticks()
NameLists == {[x \in 1..n |-> ExpName(x - 1)] : n \in 0..MaxNames}

Called(op, exp_names, r) ==
    [op |-> op, exp_names |-> exp_names, status |-> r.status, val |-> r.val,
     computed |-> r.computed]

Init ==
    /\ \E arg \in CliArgs :
         LET self == factory(arg)
         IN  /\ cli_arg = self.cli_arg
             /\ tuples = self.tuples
             /\ population = self.population
             /\ attr_changes = self.attr_changes
    /\ last = [op |-> "factory", exp_names |-> None, status |-> "ok", val |-> <<>>,
               computed |-> FALSE]
    /\ criteria_str = EmptyStr
    /\ parsed = None
    /\ collated = <<>>
    /\ pm_dfs = None
    /\ exp_chgs = {}
    /\ size_chgs = {}
    /\ merged = None

GenAttrChangelist ==
    \E size_fails \in BOOLEAN :
        LET r == gen_attr_changelist(tuples, population, attr_changes, size_fails)
        IN  /\ attr_changes' = r.attr_changes
            /\ last' = Called("gen_attr_changelist", None, r)
            /\ UNCHANGED <<cli_arg, tuples, population, parserVars, kernelVars, mergeVars>>

GenExpNames ==
    \E size_fails \in BOOLEAN :
        LET r == gen_exp_names(tuples, population, attr_changes, size_fails)
        IN  /\ attr_changes' = r.attr_changes
            /\ last' = Called("gen_exp_names", None, r)
            /\ UNCHANGED <<cli_arg, tuples, population, parserVars, kernelVars, mergeVars>>

GraphXticks ==
    \E exp_names \in {None} \cup {Some(l) : l \in NameLists}, size_fails \in BOOLEAN :
        LET r == graph_xticks(tuples, population, attr_changes, exp_names, size_fails)
        IN  /\ attr_changes' = r.attr_changes
            /\ last' = Called("graph_xticks", exp_names, r)
            /\ UNCHANGED <<cli_arg, tuples, population, parserVars, kernelVars, mergeVars>>

Next == GenAttrChangelist \/ GenExpNames \/ GraphXticks

Spec == Init /\ [][Next]_vars

(***************************************************************************)
(* Parser.__call__ on its own: the criteria string is any concatenation of *)
(* at most MaxWords of these words, so that both keywords occur in either  *)
(* order, ".Z" occurs with and without digits, more than once, and with    *)
(* leading zeros.                                                          *)
(***************************************************************************)
Words == {KwEntities, KwTasking, <<".">>, <<"Z">>, <<"0">>, <<"6">>}

RECURSIVE Cat(_)
Cat(ws) == IF ws = <<>> THEN EmptyStr ELSE ws[1] \o Cat(Tail(ws))

CriteriaStrings == {Cat(ws) : ws \in UNION {[1..n -> Words] : n \in 0..MaxWords}}

InitParser ==
    /\ criteria_str \in CriteriaStrings
    /\ parsed = None
    /\ cli_arg = EmptyStr
    /\ tuples = None
    /\ population = None
    /\ attr_changes = <<>>
    /\ last = [op |-> "none", exp_names |-> None, status |-> "ok", val |-> <<>>,
               computed |-> FALSE]
    /\ collated = <<>>
    /\ pm_dfs = None
    /\ exp_chgs = {}
    /\ size_chgs = {}
    /\ merged = None

ParserCall ==
    /\ parsed' = Some(Parser(criteria_str))
    /\ UNCHANGED <<criteria_str, oracleVars, kernelVars, mergeVars>>

NextParser == ParserCall

SpecParser == InitParser /\ [][NextParser]_vars

(***************************************************************************)
(* BaseSteadyStateRaw.df_kernel                                            *)
(*                                                                         *)
(* A frame is its list of columns and its rows in index order, each row a  *)
(* function from the column names; the index labels are the row positions  *)
(* (the RangeIndex of a frame read from a collated CSV file).  A dict is   *)
(* the sequence of its <<key, value>> pairs in insertion order.            *)
(***************************************************************************)
Range(f) == {f[i] : i \in DOMAIN f}

\* the row of the first index label
FirstRow(frame) == frame.rows[1]

\* collated[exp].loc[collated[exp].index[-1], col] for every col: the row of
\* the last index label
LastRow(frame) == frame.rows[Len(frame.rows)]

\* the body of the loop over collated.keys() for one experiment: the frame
\* pd.DataFrame(columns=..., index=[0]) with every column assigned, or the
\* IndexError of index[-1] on an empty index, which the loop over the columns
\* only reaches when there is a column
KernelOne(frame) ==
    IF frame.columns # <<>> /\ frame.rows = <<>>
    THEN [status |-> "IndexError",
          frame |-> [columns |-> <<>>, rows |-> <<>>],
          msg |-> <<"index", "-1", "is out of bounds for axis 0 with size", "0">>]
    ELSE [status |-> "ok",
          frame |-> [columns |-> frame.columns,
                     rows |-> <<[c \in Range(frame.columns) |-> LastRow(frame)[c]]>>],
          msg |-> <<>>]

\* the loop over collated.keys() from the i-th key on, dfs holding the frames
\* reduced so far
RECURSIVE KernelLoop(_, _, _)
KernelLoop(coll, i, dfs) ==
    IF i > Len(coll) THEN [status |-> "ok", dfs |-> dfs, msg |-> <<>>]
    ELSE LET one == KernelOne(coll[i][2])
         IN  IF one.status # "ok"
             THEN [status |-> one.status, dfs |-> <<>>, msg |-> one.msg]
             ELSE KernelLoop(coll, i + 1, Append(dfs, <<coll[i][1], one.frame>>))

df_kernel(coll) == KernelLoop(coll, 1, <<>>)

ColumnLists == {<<>>, <<"A">>, <<"A", "B">>, <<"B", "A">>}
Values == {"1", "2"}
KeyLists == {<<>>, <<"exp0">>, <<"exp0", "exp1">>, <<"exp1", "exp0">>}

FramesOf(cs) ==
    {[columns |-> cs, rows |-> rs] :
        rs \in UNION {[1..n -> [Range(cs) -> Values]] : n \in 0..MaxRows}}

Frames == UNION {FramesOf(cs) : cs \in ColumnLists}

InitKernel ==
    /\ \E keys \in KeyLists :
         \E fs \in [1..Len(keys) -> Frames] :
            collated = [i \in 1..Len(keys) |-> <<keys[i], fs[i]>>]
    /\ pm_dfs = None
    /\ criteria_str = EmptyStr
    /\ parsed = None
    /\ cli_arg = EmptyStr
    /\ tuples = None
    /\ population = None
    /\ attr_changes = <<>>
    /\ last = [op |-> "none", exp_names |-> None, status |-> "ok", val |-> <<>>,
               computed |-> FALSE]
    /\ exp_chgs = {}
    /\ size_chgs = {}
    /\ merged = None

DfKernel ==
    /\ pm_dfs' = Some(df_kernel(collated))
    /\ UNCHANGED <<collated, parserVars, oracleVars, mergeVars>>

NextKernel == DfKernel

SpecKernel == InitKernel /\ [][NextKernel]_vars

(***************************************************************************)
(* The merge of gen_attr_changelist(), `exp_chgs |= size_chgs`, on its own *)
(* on any two sets of changes.                                             *)
(***************************************************************************)
Edits == {AttrChange(<<"X", EmptyStr>>, a, v) : a \in {"Y", "W"}, v \in {<<"1">>, <<"2">>}}

InitCombine ==
    /\ exp_chgs \in SUBSET Edits
    /\ size_chgs \in SUBSET Edits
    /\ merged = None
    /\ criteria_str = EmptyStr
    /\ parsed = None
    /\ cli_arg = EmptyStr
    /\ tuples = None
    /\ population = None
    /\ attr_changes = <<>>
    /\ last = [op |-> "none", exp_names |-> None, status |-> "ok", val |-> <<>>,
               computed |-> FALSE]
    /\ collated = <<>>
    /\ pm_dfs = None

CombineCall ==
    /\ merged' = Some([status |-> "ok", val |-> Combine(exp_chgs, size_chgs)])
    /\ UNCHANGED <<exp_chgs, size_chgs, parserVars, oracleVars, kernelVars>>

NextCombine == CombineCall

SpecCombine == InitCombine /\ [][NextCombine]_vars

(***************************************************************************)
(* Properties of the Oracle instance (specification Spec).                 *)
(***************************************************************************)
Flags == kInfoTypes.entities
NumFlags == Len(Flags)

RECURSIVE Pow(_, _)
Pow(b, e) == IF e = 0 THEN 1 ELSE b * Pow(b, e - 1)

IsEntities == Contains(cli_arg, KwEntities)

\* the j-th flag (the first is the most significant) of the i-th tuple, i from 0,
\* of {False, True}^NumFlags in lexicographic order, as "true" or "false"
FlagValue(i, j) ==
    IF (i \div Pow(2, NumFlags - j)) % 2 = 1
    THEN <<"t", "r", "u", "e">>
    ELSE <<"f", "a", "l", "s", "e">>

FlagEdit(i, j) ==
    <<<<".//oracle_manager/", EntitiesOracle>>, Flags[j], FlagValue(i, j)>>

FlagEdits(i) == {FlagEdit(i, j) : j \in 1..NumFlags}

IsPopulationEdit(chg) == chg[2] = "quantity"

IsFlagEdit(chg) == chg[2] \in Range(Flags)

\* the plan that depends on the criteria string alone
PlanOf(arg) ==
    LET pop == ParsePopulation(arg)
    IN  [n \in 1..Pow(2, NumFlags) |->
            FlagEdits(n - 1) \cup
            (IF pop = None THEN {}
             ELSE {<<<<".//arena/distribute/entity", EmptyStr>>, "quantity",
                     StrOfInt(pop[1])>>})]

Returned(op) == last.op = op /\ last.status = "ok"

\* C1: for the category 'entities' (2 flags, caches and blocks), a plan that
\* gen_attr_changelist() returns has 2^2 entries, entry i holds for each flag j
\* the edit (".//oracle_manager/entities_oracle", flag_j, "true"/"false") of the
\* i-th tuple of {False,True}^2 in lexicographic order and no other flag edit,
\* the flag tuples are pairwise distinct, and the plan of the first call is the
\* same for equal criteria strings.
C1_PlanIsCartesianProduct ==
    (Returned("gen_attr_changelist") /\ IsEntities) =>
        /\ Len(last.val) = Pow(2, NumFlags)
        /\ \A n \in 1..Len(last.val) :
              /\ \A j \in 1..NumFlags : FlagEdit(n - 1, j) \in last.val[n]
              /\ {chg \in last.val[n] : IsFlagEdit(chg)} = FlagEdits(n - 1)
        /\ \A m, n \in 1..Len(last.val) :
              m # n => {chg \in last.val[m] : IsFlagEdit(chg)}
                         # {chg \in last.val[n] : IsFlagEdit(chg)}
        /\ last.computed => last.val = PlanOf(cli_arg)

C1_Witness ==
    /\ Returned("gen_attr_changelist")
    /\ IsEntities
    /\ last.computed
    /\ Len(last.val) = 4
    /\ population # None

\* C2: once the plan is cached no operation changes it (nothing is appended, the
\* population changes are not merged again), and every gen_attr_changelist()
\* call that returns returns the cached plan, so every call returns the plan of
\* the first access.
C2_PlanComputedOnce ==
    [][/\ (attr_changes # <<>>) => (attr_changes' = attr_changes)
       /\ (last'.op = "gen_attr_changelist" /\ last'.status = "ok")
             => last'.val = attr_changes'
       /\ (attr_changes # <<>> /\ last'.op = "gen_attr_changelist")
             => (last'.status = "ok" /\ last'.val = attr_changes)]_vars

C2_Witness ==
    /\ Returned("gen_attr_changelist")
    /\ ~last.computed
    /\ Len(last.val) = 4

\* C3 (as claimed): with a population every entry of a returned plan holds the
\* one population edit, has its flag edits plus 1, and the plan has 2^k entries;
\* without one no entry holds a population edit and each has its k flag edits.
C3_PopulationBroadcast ==
    Returned("gen_attr_changelist") =>
        /\ Len(last.val) = Pow(2, NumFlags)
        /\ population # None =>
              \A n \in 1..Len(last.val) :
                 /\ PopulationChanges(population[1]) \subseteq last.val[n]
                 /\ Cardinality({chg \in last.val[n] : IsPopulationEdit(chg)}) = 1
                 /\ Cardinality(last.val[n]) = NumFlags + 1
        /\ population = None =>
              \A n \in 1..Len(last.val) :
                 /\ \A chg \in last.val[n] : ~IsPopulationEdit(chg)
                 /\ Cardinality(last.val[n]) = NumFlags

\* C4 (as claimed): for an unsupported category gen_attr_changelist() and
\* gen_exp_names() do not fail; without a population the plan is one empty
\* AttrChangeSet and the names are ["exp0"].
C4_UnsupportedIsNoOp ==
    (~IsEntities /\ last.op \in {"gen_attr_changelist", "gen_exp_names"}) =>
        /\ last.status = "ok"
        /\ (population = None /\ last.op = "gen_attr_changelist") => last.val = <<{}>>
        /\ (population = None /\ last.op = "gen_exp_names") => last.val = <<<<"e", "x", "p", "0">>>>

\* C9: whichever operation is the first access, the names gen_exp_names()
\* returns are exp0..exp{n-1} and the ticks graph_xticks() returns without names
\* are 0.0..n-1.0, n the length of the plan gen_attr_changelist() returns;
\* graph_xticks(names) returns 0.0..len(names)-1 and does not compute the plan.
C9_AxisMatchesPlan ==
    LET plan == gen_attr_changelist(tuples, population, attr_changes, FALSE)
    IN  /\ Returned("gen_exp_names") =>
              /\ plan.status = "ok"
              /\ last.val = [x \in 1..Len(plan.val) |-> <<"e", "x", "p">> \o StrOfInt(x - 1)]
        /\ (Returned("graph_xticks") /\ last.exp_names = None) =>
              /\ plan.status = "ok"
              /\ last.val = [x \in 1..Len(plan.val) |-> <<"float", x - 1>>]
        /\ (last.op = "graph_xticks" /\ last.exp_names # None) =>
              /\ last.status = "ok"
              /\ ~last.computed
              /\ last.val = [x \in 1..Len(last.exp_names[1]) |-> <<"float", x - 1>>]

C9_Witness ==
    /\ Returned("graph_xticks")
    /\ last.exp_names = None
    /\ last.computed
    /\ Len(last.val) = 4

\* C10 (as claimed): a gen_attr_changelist() that fails on the population
\* provider leaves the cached plan empty.
C10_FailureLeavesCacheEmpty ==
    last.status = "ProviderError" => attr_changes = <<>>

(***************************************************************************)
(* Properties of Parser.__call__ (specification SpecParser).               *)
(***************************************************************************)
Occurs(s, sub) ==
    {i \in 1..Len(s) : i + Len(sub) - 1 <= Len(s) /\ \A k \in 1..Len(sub) : s[i + k - 1] = sub[k]}

DecimalDigits == {"0", "1", "2", "3", "4", "5", "6", "7", "8", "9"}

\* the positions where '.Z<digit>' starts
PopulationMarks(s) ==
    {i \in Occurs(s, <<".", "Z">>) : i + 2 <= Len(s) /\ s[i + 2] \in DecimalDigits}

Min(S) == CHOOSE x \in S : \A y \in S : x <= y

\* the last position of the digits that follow the mark at i
DigitsEnd(s, i) ==
    CHOOSE e \in (i + 2)..Len(s) :
        /\ \A k \in (i + 2)..e : s[k] \in DecimalDigits
        /\ e = Len(s) \/ s[e + 1] \notin DecimalDigits

RECURSIVE DecimalValue(_, _, _)
\* the value of the decimal numeral s[from..to]
DecimalValue(s, from, to) ==
    IF from > to THEN 0
    ELSE DigitVal(s[from]) * Pow(10, to - from) + DecimalValue(s, from + 1, to)

HasRows(coll) == \A i \in 1..Len(coll) : coll[i][2].rows # <<>>

EmptyFrames(coll) == {i \in 1..Len(coll) : coll[i][2].rows = <<>>}

\* C6: when every frame has a row, the result has the input's keys, and for
\* each experiment one row with the input's columns in their order, each
\* column holding its value in the last row of that experiment's frame; the
\* result for an experiment is the one it has when reduced alone.
C6_TakeLastRow ==
    (pm_dfs # None /\ HasRows(collated)) =>
        LET out == pm_dfs[1]
        IN  /\ out.status = "ok"
            /\ Len(out.dfs) = Len(collated)
            /\ \A i \in 1..Len(collated) :
                  LET in == collated[i][2]
                      res == out.dfs[i][2]
                  IN  /\ out.dfs[i][1] = collated[i][1]
                      /\ res.columns = in.columns
                      /\ Len(res.rows) = 1
                      /\ DOMAIN res.rows[1] = Range(in.columns)
                      /\ \A c \in Range(in.columns) :
                            res.rows[1][c] = in.rows[Len(in.rows)][c]
                      /\ <<res>> = [k \in 1..1 |-> df_kernel(<<collated[i]>>).dfs[k][2]]

\* two experiments, two columns, the last row differing from the first
C6_Witness ==
    /\ pm_dfs # None
    /\ HasRows(collated)
    /\ Len(collated) = 2
    /\ \A i \in 1..2 :
          /\ Len(collated[i][2].columns) = 2
          /\ Len(collated[i][2].rows) = 2
          /\ collated[i][2].rows[1] # collated[i][2].rows[2]
    /\ collated[1][2] # collated[2][2]
    /\ pm_dfs[1].status = "ok"

\* C7 (as claimed): if a frame has no rows the call ends in an error that names
\* an experiment whose frame has no rows, and returns no result.
C7_EmptyFrameIsNamedError ==
    (pm_dfs # None /\ EmptyFrames(collated) # {}) =>
        /\ pm_dfs[1].status # "ok"
        /\ \E i \in EmptyFrames(collated) : collated[i][1] \in Range(pm_dfs[1].msg)

(***************************************************************************)
(* Property of the merge (specification SpecCombine).                      *)
(***************************************************************************)
Conflict(a, b) ==
    \E x \in a, y \in b : x[1] = y[1] /\ x[2] = y[2] /\ x[3] # y[3]

====
